---- MODULE Spec2Model ----
(***************************************************************************)
(* A model of generate_ics.py: main's loop over the teams of teams.json,   *)
(* the per-team fetch, the per-event try block (uid_for, the seen_uids     *)
(* check, build_vevent) and the single write of docs/all.ics.              *)
(*                                                                         *)
(* Python dicts are records whose DOMAIN is the set of keys present; a key *)
(* whose JSON value is null is modelled as an absent key (dict.get returns *)
(* None for both).  Strings are sequences of one-character strings.  A     *)
(* date or time string is the record of the fields dateutil reads in it.   *)
(* Instants are seconds.                                                   *)
(***************************************************************************)
EXTENDS Integers, Sequences, FiniteSets, TLC

\* Bounds of the model.
MaxTeams == 2
MaxEvents == 2
MaxClock == 1

\* ------------------------------------------------------------------------
\* Module-level configuration of generate_ics.py.
UID_DOMAIN == <<"g", "i", "t", "h", "u", "b", ".", "i", "o">>
DEFAULT_TZ == 0
DefaultDuration == 120

\* ------------------------------------------------------------------------
\* dict.get and truthiness.
Has(d, k) == k \in DOMAIN d

Truthy(d, k) == Has(d, k) /\ d[k] # <<>>

NoneText == <<"N", "o", "n", "e">>

\* ------------------------------------------------------------------------
\* The inputs: team entries of teams.json and raw events of the API.
TeamA == [team_id |-> <<"1">>, name |-> <<"a">>, duration_minutes |-> 90,
          sport_emoji |-> <<"*">>]
TeamB == [team_id |-> <<"2">>, name |-> <<"b">>]
TeamC == [name |-> <<"c">>]

TeamPool == {TeamA, TeamB, TeamC}

\* A fixture with every field, naive time 23:30 on day 1.
EvA == [strLeague |-> <<"A", " ", "B">>, idEvent |-> <<"7">>,
        dateEvent |-> [day |-> 1], strTime |-> [hh |-> 23, mm |-> 30],
        strEvent |-> <<"T">>, strVenue |-> <<"V">>]
\* The league spelt with an underscore, the identifier under "id", a time
\* with a UTC offset of +01:00, no strEvent but both team names.
EvB == [strLeague |-> <<"A", "_", "B">>, id |-> <<"7">>,
        dateEvent |-> [day |-> 1],
        strTime |-> [hh |-> 22, mm |-> 45, off |-> 3600],
        strHomeTeam |-> <<"H">>, strAwayTeam |-> <<"W">>]
\* League and identifier of EvA, no dateEvent.
EvC == [strLeague |-> <<"A", " ", "B">>, idEvent |-> <<"7">>,
        strEvent |-> <<"T">>]
\* No league, no idEvent, no id; a date without a time.
EvD == [dateEvent |-> [day |-> 2], strEvent |-> <<"T">>]
\* A valid date and identifier, no strEvent and no strAwayTeam.
EvE == [strLeague |-> <<"A", " ", "B">>, idEvent |-> <<"8">>,
        dateEvent |-> [day |-> 1], strHomeTeam |-> <<"H">>]
\* An element of the events list that is not a JSON object.
EvF == [notdict |-> TRUE]

EventPool == {EvA, EvB, EvC, EvD, EvE, EvF}

\* One event for each way the try block of the inner loop ends: EvA is built,
\* or dropped as a duplicate after EvA or EvC; EvC raises in build_vevent;
\* EvF raises in uid_for.
OutcomePool == {EvA, EvC, EvF}

SeqsUpTo(S, n) == UNION {[1..k -> S] : k \in 0..n}

\* ------------------------------------------------------------------------
\* The state of one run of main.
VARIABLES pc, teams, ti, events, ei, seen_uids, vevents, now, written, out,
          fetched, log

vars == <<pc, teams, ti, events, ei, seen_uids, vevents, now, written, out,
          fetched, log>>

\* ------------------------------------------------------------------------
\* Pure functions.

\* str.replace(" ", "_")
Replace(s) == [i \in 1..Len(s) |-> IF s[i] = " " THEN "_" ELSE s[i]]

\* uid_for raises AttributeError when the event has no .get
UidRaises(ev) == Has(ev, "notdict")

\* event.get("idEvent") or event.get("id"), as the f-string renders it
EidText(ev) ==
    IF Truthy(ev, "idEvent") THEN ev.idEvent
    ELSE IF Has(ev, "id") THEN ev.id
    ELSE NoneText

\* (event.get("strLeague") or "league").replace(" ", "_")
LeagueText(ev) ==
    Replace(IF Truthy(ev, "strLeague") THEN ev.strLeague
            ELSE <<"l", "e", "a", "g", "u", "e">>)

\* A uid_for that leaves the event identifier out of the uid.
uid_forLeagueOnly(ev) == LeagueText(ev) \o <<"@">> \o UID_DOMAIN

uid_for(ev) == LeagueText(ev) \o <<"-">> \o EidText(ev) \o <<"@">> \o UID_DOMAIN

\* strftime("%Y%m%dT%H%M%SZ") of a UTC instant: the date, hour, minute, second
Strftime(t) == <<t \div 86400, (t % 86400) \div 3600, (t % 3600) \div 60, t % 60>>

\* dt.astimezone(pytz.utc).strftime(...)
to_utc_rfc(dt) == Strftime(dt.wall - dt.off)

\* dateutil's parser.parse of the date, or of "date time"
ParseRaises(ev) == Has(ev.dateEvent, "garbage")

Parse(ev) ==
    IF Has(ev, "strTime")
    THEN [wall |-> ev.dateEvent.day * 86400 + ev.strTime.hh * 3600
                   + ev.strTime.mm * 60,
          aware |-> Has(ev.strTime, "off"),
          off |-> IF Has(ev.strTime, "off") THEN ev.strTime.off ELSE 0]
    ELSE [wall |-> ev.dateEvent.day * 86400, aware |-> FALSE, off |-> 0]

make_dt(ev) ==
    IF ~Has(ev, "dateEvent") THEN [ok |-> FALSE]
    ELSE IF ParseRaises(ev) THEN [ok |-> FALSE]
    ELSE LET dt == Parse(ev)
         IN  [ok |-> TRUE,
              dt |-> [wall |-> dt.wall,
                      off |-> IF dt.aware THEN dt.off ELSE DEFAULT_TZ]]

\* A build_vevent that ignores the team's duration_minutes.
DurationIgnoresTeam(team) == DefaultDuration

\* int(team.get("duration_minutes", 120))
Duration(team) ==
    IF Has(team, "duration_minutes") THEN team.duration_minutes
    ELSE DefaultDuration

\* dt + timedelta(minutes=duration)
EndOf(dt, duration) == [wall |-> dt.wall + duration * 60, off |-> dt.off]

\* event.get('strHomeTeam')+' vs '+event.get('strAwayTeam') raises TypeError
\* when either is None; it is evaluated only when strEvent is falsy.
SummaryRaises(ev) ==
    /\ ~Truthy(ev, "strEvent")
    /\ ~(Has(ev, "strHomeTeam") /\ Has(ev, "strAwayTeam"))

\* The words of the stripped summary line.
Summary(ev, team) ==
    (IF Truthy(team, "sport_emoji") THEN <<team.sport_emoji>> ELSE <<>>)
    \o (IF Truthy(ev, "strEvent") THEN <<ev.strEvent>>
        ELSE <<ev.strHomeTeam, <<"v", "s">>, ev.strAwayTeam>>)

Location(ev) ==
    IF Truthy(ev, "strVenue") THEN ev.strVenue
    ELSE IF Truthy(ev, "strVenueLocation") THEN ev.strVenueLocation
    ELSE <<>>

Description(ev) == IF Truthy(ev, "strLeague") THEN ev.strLeague ELSE <<>>

\* build_vevent(event, team), utcnow() returning clock
build_vevent(ev, team, clock) ==
    LET d == make_dt(ev)
    IN  IF ~d.ok THEN [ok |-> FALSE]
        ELSE IF SummaryRaises(ev) THEN [ok |-> FALSE]
        ELSE [ok |-> TRUE,
              val |-> [uid |-> uid_for(ev),
                       dtstamp |-> Strftime(clock),
                       dtstart |-> to_utc_rfc(d.dt),
                       dtend |-> to_utc_rfc(EndOf(d.dt, Duration(team))),
                       summary |-> Summary(ev, team),
                       location |-> Location(ev),
                       description |-> Description(ev)]]

generate_calendar(all_vevents) ==
    [header |-> <<"BEGIN:VCALENDAR", "VERSION:2.0",
                  "PRODID:-//My Sports Calendar//EN", "CALSCALE:GREGORIAN">>,
     body |-> all_vevents,
     footer |-> <<"END:VCALENDAR">>]

\* A main that forgets to record the uid.
MarkSeenForgets(uid, s) == s

\* seen_uids.add(uid)
MarkSeen(uid, s) == s \cup {uid}

\* The body of the try block of main's inner loop.
StepEvent(s, v, ev, team, clock) ==
    IF UidRaises(ev)
    THEN [seen |-> s, vevents |-> v, outcome |-> "uid_error"]
    ELSE LET uid == uid_for(ev)
         IN  IF uid \in s
             THEN [seen |-> s, vevents |-> v, outcome |-> "duplicate"]
             ELSE LET b == build_vevent(ev, team, clock)
                  IN  IF b.ok
                      THEN [seen |-> MarkSeen(uid, s),
                            vevents |-> Append(v, b.val),
                            outcome |-> "built"]
                      ELSE [seen |-> MarkSeen(uid, s), vevents |-> v,
                            outcome |-> "build_error"]

\* ------------------------------------------------------------------------
\* The run.

\* Events returned so far in the run.
RECURSIVE Returned(_)
Returned(fs) ==
    IF fs = <<>> THEN 0
    ELSE (IF Head(fs).ok THEN Len(Head(fs).events) ELSE 0) + Returned(Tail(fs))

Init ==
    /\ pc = "load"
    /\ teams = <<>>
    /\ ti = 1
    /\ events = <<>>
    /\ ei = 1
    /\ seen_uids = {}
    /\ vevents = <<>>
    /\ now = 0
    /\ written = 0
    /\ out = generate_calendar(<<>>)
    /\ fetched = <<>>
    /\ log = <<>>

\* json.load(f) of teams.json succeeds
LoadTeams ==
    /\ pc = "load"
    /\ \E ts \in SeqsUpTo(TeamPool, MaxTeams) : teams' = ts
    /\ pc' = "teams"
    /\ UNCHANGED <<ti, events, ei, seen_uids, vevents, now, written, out,
                   fetched, log>>

\* open or json.load raises: the run ends with the traceback
LoadFails ==
    /\ pc = "load"
    /\ pc' = "fatal"
    /\ UNCHANGED <<teams, ti, events, ei, seen_uids, vevents, now, written,
                   out, fetched, log>>

\* team["team_id"] raises KeyError outside any try
TeamIdMissing ==
    /\ pc = "teams"
    /\ ti <= Len(teams)
    /\ ~Has(teams[ti], "team_id")
    /\ pc' = "crashed"
    /\ UNCHANGED <<teams, ti, events, ei, seen_uids, vevents, now, written,
                   out, fetched, log>>

\* A main whose except clause starts the list of VEVENT blocks afresh.
FetchFailsResets ==
    /\ pc = "teams"
    /\ ti <= Len(teams)
    /\ Has(teams[ti], "team_id")
    /\ fetched' = Append(fetched, [ok |-> FALSE])
    /\ ti' = ti + 1
    /\ vevents' = <<>>
    /\ UNCHANGED <<pc, teams, events, ei, seen_uids, now, written, out, log>>

\* fetch_events raises; main prints and continues
FetchFails ==
    /\ pc = "teams"
    /\ ti <= Len(teams)
    /\ Has(teams[ti], "team_id")
    /\ fetched' = Append(fetched, [ok |-> FALSE])
    /\ ti' = ti + 1
    /\ UNCHANGED <<pc, teams, events, ei, seen_uids, vevents, now, written,
                   out, log>>

\* fetch_events returns no events; main prints and continues
FetchEmpty ==
    /\ pc = "teams"
    /\ ti <= Len(teams)
    /\ Has(teams[ti], "team_id")
    /\ fetched' = Append(fetched, [ok |-> TRUE, events |-> <<>>])
    /\ ti' = ti + 1
    /\ UNCHANGED <<pc, teams, events, ei, seen_uids, vevents, now, written,
                   out, log>>

\* fetch_events returns a non-empty list; main enters the inner loop
FetchEvents(pool) ==
    /\ pc = "teams"
    /\ ti <= Len(teams)
    /\ Has(teams[ti], "team_id")
    /\ \E evs \in SeqsUpTo(pool, MaxEvents - Returned(fetched)) :
          /\ evs # <<>>
          /\ events' = evs
          /\ fetched' = Append(fetched, [ok |-> TRUE, events |-> evs])
    /\ ei' = 1
    /\ pc' = "events"
    /\ UNCHANGED <<teams, ti, seen_uids, vevents, now, written, out, log>>

\* One iteration of the inner loop.  now is the instant of the newest block
\* of the list: utcnow() returns that instant or a later one.
ProcessEvent ==
    /\ pc = "events"
    /\ ei <= Len(events)
    /\ \E clock \in now..MaxClock :
          LET r == StepEvent(seen_uids, vevents, events[ei], teams[ti], clock)
          IN  /\ seen_uids' = r.seen
              /\ vevents' = r.vevents
              /\ log' = Append(log, [t |-> ti, e |-> ei, outcome |-> r.outcome])
              /\ now' = IF r.outcome = "built" THEN clock ELSE now
    /\ ei' = ei + 1
    /\ UNCHANGED <<pc, teams, ti, events, written, out, fetched>>

\* The inner loop is exhausted: next team
EventsDone ==
    /\ pc = "events"
    /\ ei > Len(events)
    /\ pc' = "teams"
    /\ ti' = ti + 1
    /\ UNCHANGED <<teams, events, ei, seen_uids, vevents, now, written, out,
                   fetched, log>>

\* A main that writes the file when the last team is still to be processed.
WriteFileEarly ==
    /\ pc = "teams"
    /\ ti >= Len(teams)
    /\ out' = generate_calendar(vevents)
    /\ written' = written + 1
    /\ pc' = "done"
    /\ UNCHANGED <<teams, ti, events, ei, seen_uids, vevents, now, fetched,
                   log>>

\* The team loop is exhausted: generate_calendar and the write of all.ics
WriteFile ==
    /\ pc = "teams"
    /\ ti > Len(teams)
    /\ out' = generate_calendar(vevents)
    /\ written' = written + 1
    /\ pc' = "done"
    /\ UNCHANGED <<teams, ti, events, ei, seen_uids, vevents, now, fetched,
                   log>>

Next ==
    \/ LoadTeams
    \/ LoadFails
    \/ TeamIdMissing
    \/ FetchFails
    \/ FetchEmpty
    \/ FetchEvents(EventPool)
    \/ ProcessEvent
    \/ EventsDone
    \/ WriteFile

Spec == Init /\ [][Next]_vars

\* The run with the fetched events drawn from OutcomePool.
NextOutcomes ==
    \/ LoadTeams
    \/ LoadFails
    \/ TeamIdMissing
    \/ FetchFails
    \/ FetchEmpty
    \/ FetchEvents(OutcomePool)
    \/ ProcessEvent
    \/ EventsDone
    \/ WriteFile

\* The interpreter runs main to its end: a step that can be taken is taken.
FairSpec == Init /\ [][NextOutcomes]_vars /\ WF_vars(NextOutcomes)

\* ------------------------------------------------------------------------
\* The reference run: main's two loops as a fold over the teams whose fetch
\* returned, with the clock at 0.
RECURSIVE RunEvents(_, _, _)
RunEvents(st, evs, team) ==
    IF Len(evs) = 0 THEN st
    ELSE LET r == StepEvent(st.seen, st.vevents, Head(evs), team, 0)
         IN  RunEvents([seen |-> r.seen, vevents |-> r.vevents], Tail(evs), team)

RECURSIVE RunTeams(_, _, _)
RunTeams(st, ts, rs) ==
    IF Len(ts) = 0 THEN st
    ELSE RunTeams(RunEvents(st, Head(rs), Head(ts)), Tail(ts), Tail(rs))

EmptyRun == [seen |-> {}, vevents |-> <<>>]

\* ------------------------------------------------------------------------
\* Vocabulary of the properties.

\* The positions <<team, event>> of the raw events returned so far.
AllPos ==
    UNION {{<<t, e>> : e \in 1..(IF fetched[t].ok THEN Len(fetched[t].events)
                                 ELSE 0)} : t \in 1..Len(fetched)}

EvAt(p) == fetched[p[1]].events[p[2]]

\* Fetch order: teams in configured order, events in returned order.
Before(p, q) == p[1] < q[1] \/ (p[1] = q[1] /\ p[2] < q[2])

LogPos(k) == <<log[k].t, log[k].e>>

FirstOccurrence(p) ==
    /\ ~UidRaises(EvAt(p))
    /\ \A q \in AllPos :
          (Before(q, p) /\ ~UidRaises(EvAt(q)))
              => uid_for(EvAt(q)) # uid_for(EvAt(p))

\* The log entries of the events that gave a VEVENT, in order.
BuiltLog == SelectSeq(log, LAMBDA r : r.outcome = "built")

\* The UTC instant a rendered YYYYMMDDTHHMMSSZ names.
FromRfc(r) == r[1] * 86400 + r[2] * 3600 + r[3] * 60 + r[4]

\* The blocks with the DTSTAMP line set aside.
Strip(v) == [i \in 1..Len(v) |-> [v[i] EXCEPT !.dtstamp = Strftime(0)]]

SameField(e1, e2, k) ==
    /\ Has(e1, k) = Has(e2, k)
    /\ Has(e1, k) => e1[k] = e2[k]

HasIdentifier(ev) == Truthy(ev, "idEvent") \/ Has(ev, "id")

\* Two raw events report the same league and the same event identifier.
SameFixture(e1, e2) ==
    /\ ~UidRaises(e1) /\ ~UidRaises(e2)
    /\ SameField(e1, e2, "strLeague")
    /\ HasIdentifier(e1) /\ HasIdentifier(e2)
    /\ EidText(e1) = EidText(e2)

\* main is between two teams, or has ended.
BetweenTeams == pc \in {"teams", "done", "crashed"}

OkIdx == SelectSeq([i \in 1..Len(fetched) |-> i], LAMBDA i : fetched[i].ok)

OkTeams == [k \in 1..Len(OkIdx) |-> teams[OkIdx[k]]]

OkResults == [k \in 1..Len(OkIdx) |-> fetched[OkIdx[k]].events]

HasDate(ev) == UidRaises(ev) \/ Has(ev, "dateEvent")

DatedResults ==
    [k \in 1..Len(OkIdx) |-> SelectSeq(fetched[OkIdx[k]].events, HasDate)]

\* ------------------------------------------------------------------------
\* C1: in every state of main's loops, no two VEVENT blocks of the list
\* handed to generate_calendar carry the same UID.
NoTwoBlocksShareUid ==
    \A i, j \in 1..Len(vevents) :
        i # j => vevents[i].uid # vevents[j].uid

\* A block is in the list and a later event with its uid was dropped.
DuplicateDroppedWitness ==
    \E k \in 1..Len(log) :
        /\ log[k].outcome = "duplicate"
        /\ \E i \in 1..Len(vevents) : vevents[i].uid = uid_for(EvAt(LogPos(k)))

\* C2: when the run ends, two fixtures fetched under different teams that
\* report the same league and the same event identifier, one of which at
\* least can be rendered under its team, have exactly one VEVENT.
SharedFixtureYieldsOneVevent ==
    pc = "done" =>
        \A p, q \in AllPos :
            (/\ p[1] # q[1]
             /\ SameFixture(EvAt(p), EvAt(q))
             /\ \/ build_vevent(EvAt(p), teams[p[1]], 0).ok
                \/ build_vevent(EvAt(q), teams[q[1]], 0).ok)
            => Cardinality({i \in 1..Len(vevents) :
                               vevents[i].uid = uid_for(EvAt(p))}) = 1

\* C3: between teams, the VEVENT list and the seen-uid set are those of a run
\* over the teams whose fetch returned, the teams whose fetch raised left
\* out.
FailedFetchContributesNothing ==
    BetweenTeams =>
        LET r == RunTeams(EmptyRun, OkTeams, OkResults)
        IN  /\ Strip(vevents) = r.vevents
            /\ seen_uids = r.seen

\* The first team's fetch raised and a later team gave two VEVENTs.
FailedThenTwoWitness ==
    /\ pc = "done"
    /\ Len(fetched) >= 2
    /\ ~fetched[1].ok
    /\ Len(vevents) = 2

\* C4: between teams, the VEVENT list is that of a run over the same fetch
\* results with the events that have no dateEvent left out.
DatelessEventIsolated ==
    BetweenTeams =>
        Strip(vevents) = RunTeams(EmptyRun, OkTeams, DatedResults).vevents

\* C5: an event with neither idEvent nor id gives no VEVENT.
EventWithoutIdentifierSkipped ==
    \A k \in 1..Len(log) :
        (/\ ~UidRaises(EvAt(LogPos(k)))
         /\ ~HasIdentifier(EvAt(LogPos(k))))
        => log[k].outcome # "built"

OnlyLoadFailureIsFatal ==
    pc \in {"done", "crashed"} => written = 1

AllTeamsHaveId == \A i \in 1..Len(teams) : Has(teams[i], "team_id")

\* C7 amended: the file is written at most once, only when every team has
\* been processed, and it holds the calendar of the VEVENT list; the run
\* aborts only at a team entry without team_id; and once a team list whose
\* entries all have a team_id is loaded, the run ends with the file written.
WritesOnceAfterAllTeams ==
    /\ [](/\ written <= 1
          /\ written = 1 =>
                /\ pc = "done"
                /\ Len(fetched) = Len(teams)
                /\ Returned(fetched) = Len(log)
                /\ out = generate_calendar(vevents)
          /\ pc = "crashed" => ~AllTeamsHaveId)
    /\ (pc = "teams" /\ AllTeamsHaveId) ~> (pc = "done" /\ written = 1)

\* Every fetch raised and the file holds no VEVENT.
AllFailedWrittenWitness ==
    /\ pc = "done"
    /\ written = 1
    /\ Len(teams) >= 2
    /\ \A t \in 1..Len(fetched) : ~fetched[t].ok
    /\ out.body = <<>>

\* C8: every VEVENT block of the list carries the same DTSTAMP.
OneDtstampPerRun ==
    \A i, j \in 1..Len(vevents) : vevents[i].dtstamp = vevents[j].dtstamp

\* C9: an event whose uid is derived and not seen before and whose date
\* normalises gives a VEVENT.
FormatterNeverRaises ==
    \A k \in 1..Len(log) :
        (/\ log[k].outcome \notin {"uid_error", "duplicate"}
         /\ make_dt(EvAt(LogPos(k))).ok)
        => log[k].outcome = "built"

\* C10 as stated: an event is dropped by the seen_uids check only if an
\* earlier event had the same league name and the same identifier.
DroppedOnlyForSameLeagueAndId ==
    \A k \in 1..Len(log) :
        log[k].outcome = "duplicate" =>
            \E q \in AllPos :
                /\ Before(q, LogPos(k))
                /\ ~UidRaises(EvAt(q))
                /\ SameField(EvAt(q), EvAt(LogPos(k)), "strLeague")
                /\ EidText(EvAt(q)) = EidText(EvAt(LogPos(k)))

\* C10 amended: an event is dropped by the seen_uids check only if an
\* earlier event had the same league name once an absent league is read as
\* "league" and spaces are replaced by underscores, and the same identifier
\* text.
DroppedOnlyForSameNormalisedLeagueAndId ==
    \A k \in 1..Len(log) :
        log[k].outcome = "duplicate" =>
            \E q \in AllPos :
                /\ Before(q, LogPos(k))
                /\ ~UidRaises(EvAt(q))
                /\ LeagueText(EvAt(q)) = LeagueText(EvAt(LogPos(k)))
                /\ EidText(EvAt(q)) = EidText(EvAt(LogPos(k)))

\* An event was dropped whose league name differs from that of every
\* earlier event.
CollapsedLeaguesWitness ==
    \E k \in 1..Len(log) :
        /\ log[k].outcome = "duplicate"
        /\ \A q \in AllPos :
              Before(q, LogPos(k)) =>
                  /\ ~UidRaises(EvAt(q))
                  /\ ~SameField(EvAt(q), EvAt(LogPos(k)), "strLeague")

====
